---- MODULE Spec2Model ----
(***************************************************************************)
(* FinAgent conversation orchestration engine: the LangGraph workflow of   *)
(* api.py / main.py (guardrail -> condition -> user_chat | retriever |     *)
(* debate | finance), the bounded tool-call loop of the tool-capable       *)
(* stages and the five-round debate protocol.                              *)
(*                                                                         *)
(* Texts are sequences of one-character strings so that Python's substring *)
(* test and len() are computed, not assumed.  Hangul syllables are written *)
(* by code point ("U+C218").  The completion service, the tools and the    *)
(* store are external: every answer they can give is a nondeterministic    *)
(* choice in the action that awaits it.                                    *)
(***************************************************************************)
EXTENDS Integers, Sequences, FiniteSets, TLC

----------------------------------------------------------------------------
(* Bounds of the model *)

MaxToolCalls == 2     \* tool requests carried by one completion response
MaxExtract == 1       \* fields one structured-extraction answer may carry
MaxMissing == 1       \* required fields missing from the stored profile at session start

----------------------------------------------------------------------------
(* Texts *)

\* "Change my income to 80M"
TextChangeIncome ==
    <<"C","h","a","n","g","e"," ","m","y"," ","i","n","c","o","m","e"," ","t","o"," ","8","0","M">>

\* "change my income"
TextChangeLower ==
    <<"c","h","a","n","g","e"," ","m","y"," ","i","n","c","o","m","e">>

\* "Price of Apple"
TextPrice ==
    <<"P","r","i","c","e"," ","o","f"," ","A","p","p","l","e">>

UserTexts == {TextChangeIncome, TextChangeLower, TextPrice}

\* Text produced by the completion service or by a stage: one opaque token.
Tok(t) == <<t>>

\* Python `k in s` on strings: k occurs in s as a contiguous substring.
Contains(s, k) ==
    \E i \in 1..(Len(s) - Len(k) + 1) : SubSeq(s, i, i + Len(k) - 1) = k

----------------------------------------------------------------------------
(* Profile *)

REQUIRED_FIELDS ==
    << "name_display", "age_range", "income_bracket",
       "invest_experience_yr", "financial_knowledge_level",
       "current_holdings_note", "preferred_asset_types",
       "risk_tolerance_level", "total_investable_amt",
       "goal_type", "goal_description", "preferred_style" >>

\* a collector's list that lacks the last field
REQUIRED_FIELDS_UC_short == SubSeq(REQUIRED_FIELDS, 1, Len(REQUIRED_FIELDS) - 1)

REQUIRED_FIELDS_UC ==
    << "name_display", "age_range", "income_bracket",
       "invest_experience_yr", "financial_knowledge_level",
       "current_holdings_note", "preferred_asset_types",
       "risk_tolerance_level", "total_investable_amt",
       "goal_type", "goal_description", "preferred_style" >>

FieldNames == {REQUIRED_FIELDS[i] : i \in 1..Len(REQUIRED_FIELDS)}

\* Field values: None (absent or null), the empty string, the empty list, or data.
NoneVal == "None"
EmptyStr == ""
EmptyList == "[]"
FieldValues == {NoneVal, EmptyStr, EmptyList, "v1", "v2"}

\* `val is None or val == "" or val == []`
\* a missing test that only knows null
IsMissingValNullOnly(val) == val = NoneVal

IsMissingVal(val) == val = NoneVal \/ val = EmptyStr \/ val = EmptyList

\* a completeness check that forgets the last required field
RouterMissingFieldsShort(profile) ==
    SelectSeq(SubSeq(REQUIRED_FIELDS, 1, Len(REQUIRED_FIELDS) - 1),
              LAMBDA f : IsMissingVal(profile[f]))

\* missing_fields of ConditionNode.run, in REQUIRED_FIELDS order
RouterMissingFields(profile) ==
    SelectSeq(REQUIRED_FIELDS, LAMBDA f : IsMissingVal(profile[f]))

\* missing_fields / remaining of UserProfileChatNode.run
ChatMissingFields(profile) ==
    SelectSeq(REQUIRED_FIELDS_UC, LAMBDA f : IsMissingVal(profile[f]))

\* dict.update: keys of `upd` overwrite, the others are kept.
\* An update is a function from a set of field names to values.
DictUpdate(profile, upd) ==
    [f \in FieldNames |-> IF f \in DOMAIN upd THEN upd[f] ELSE profile[f]]

\* a reducer that discards the stored mapping
merge_dict_replace(left, right) == right

\* a reducer that extends a stored transcript instead of replacing it
merge_dict_extend(left, right) ==
    [k \in DOMAIN left \cup DOMAIN right |->
        IF k \notin DOMAIN right THEN left[k]
        ELSE IF k = "debate_history" /\ k \in DOMAIN left THEN left[k] \o right[k]
        ELSE right[k]]

\* merge_dict reducer of AgentState: {**left, **right}
merge_dict(left, right) ==
    [k \in DOMAIN left \cup DOMAIN right |->
        IF k \in DOMAIN right THEN right[k] ELSE left[k]]

\* a reducer that keeps only the update
merge_messages_replace(left, right) == right

\* merge_messages reducer of AgentState: left + right
merge_messages(left, right) == left \o right

EmptyProfile == [f \in FieldNames |-> NoneVal]

\* The fields the bounded inputs vary: the first, a middle and the last
\* required field.  The other nine are filled in every stored row.
FocusFields == {"name_display", "income_bracket", "preferred_style"}

\* Rows of the store's user_profile table a session can start from: at most
\* MaxMissing of the focus columns are null.
InitRows ==
    {p \in [FieldNames -> {NoneVal, "v1"}] :
        /\ \A f \in FieldNames \ FocusFields : p[f] = "v1"
        /\ Cardinality({f \in FocusFields : p[f] = NoneVal}) <= MaxMissing}

\* The store: the user's row, or no row.
NoRow == [exists |-> FALSE, row |-> EmptyProfile]
StoredRow(p) == [exists |-> TRUE, row |-> p]

\* load_user_profile: the row, or {} when there is none
load_user_profile(db) == IF db.exists THEN db.row ELSE EmptyProfile

HumanMessage(text) == [role |-> "human", content |-> text]
AIMessage(text) == [role |-> "ai", content |-> text]

----------------------------------------------------------------------------
(* State *)

VARIABLES
    node,              \* graph node about to run; "idle" before the turn, "__end__" or
                       \* "error" (an exception left the graph) after it
    ran,               \* nodes executed so far in the current turn
    messages,          \* AgentState.messages
    user_profile,      \* AgentState.user_profile
    db_profile,        \* user_profile row of the store for this user
    collected_data,    \* AgentState.collected_data
    guardrail_result,  \* AgentState.guardrail_result
    original_query,    \* state.get("original_query")
    router,            \* what the last ConditionNode.run did
    chat,              \* what the last UserProfileChatNode.run did
    \* one invocation of the tool-call loop (_agent_turn / _execute_react)
    loopHost,          \* whose loop runs: "debate", "retriever", "finance"; "none" outside
    lpc,               \* "idle", "call", "tools", "final", "done", "raised"
    loopIter,          \* iterations of `for _ in range(2)` entered
    loopMsgs,          \* the local `messages` list
    pending,           \* invocation ids of response.tool_calls, in order
    done,              \* how many of them have been executed
    callLog,           \* completion calls made: tools passed?, requests returned
    lastKind,          \* kind of the tool request executed last
    loopResult,        \* the returned text
    retFrom,           \* index in callLog of the response whose text is returned
    \* one run of DebateNode.run
    dpc,               \* "idle", "turn", "verdict", "finish"
    topic,             \* local `topic`
    debate_log,        \* local `debate_log`
    round_i,           \* 1..max_rounds
    agent_i,           \* index into `agents`
    verdict,           \* verdict calls made in this run, and the log length at the call
    topicLog,          \* what each _resolve_topic of this run did, in call order
    fpc,               \* FinanceNode.run: "idle", "lookup", "body", "returned"
    fin,               \* what the FinanceNode.run of this turn has done so far
    advisory_reports,  \* rows of the store's advisory_reports table
    \* the HTTP entry point: chat() coroutines on one event loop
    active_sessions,   \* the module-level registry, per session id
    requests,          \* each chat() call: where it is and what it carries
    threads,           \* the checkpointer's messages, per thread_id
    thread_user        \* the checkpointer's user_id, per thread_id

sessionVars ==
    << node, ran, messages, user_profile, db_profile, collected_data,
       guardrail_result, original_query, router, chat >>

loopVars ==
    << loopHost, lpc, loopIter, loopMsgs, pending, done, callLog, lastKind,
       loopResult, retFrom >>

debateVars == << dpc, topic, debate_log, round_i, agent_i, verdict, topicLog >>

reportVars == << fpc, fin, advisory_reports >>

apiVars == << active_sessions, requests, threads, thread_user >>

vars == << sessionVars, loopVars, debateVars, reportVars, apiVars >>

NoAnswer == [kind |-> "none", route |-> "absent"]
NoRoute == [goto |-> "none", rule |-> "none", calls |-> 0, answer |-> NoAnswer]
NoChat == [complete |-> FALSE, extract_calls |-> 0, merged |-> FALSE]
NoCollected == [debate_history |-> << >>, report_topic |-> Tok("none")]

NoText == Tok("none")

\* no loop invocation in progress
LoopIdle ==
    /\ loopHost = "none"
    /\ lpc = "idle"
    /\ loopIter = 0
    /\ loopMsgs = << >>
    /\ pending = << >>
    /\ done = 0
    /\ callLog = << >>
    /\ lastKind = "none"
    /\ loopResult = NoText
    /\ retFrom = 0

NoVerdict == [calls |-> 0, entries |-> 0]

\* no debate run in progress
DebateIdle ==
    /\ dpc = "idle"
    /\ topic = NoText
    /\ debate_log = << >>
    /\ round_i = 0
    /\ agent_i = 0
    /\ verdict = NoVerdict
    /\ topicLog = << >>

\* The transcript a completed debate run leaves in collected_data: one
\* entry per persona and round.
PriorTranscript ==
    [i \in 1..15 |-> [role |-> << "Conservative", "Aggressive", "Balanced" >>[((i - 1) % 3) + 1],
                      argument |-> Tok("text")]]

\* Sessions a turn can arrive at: a new session, or (for a user whose profile
\* is complete) a session whose previous turn was a debate.
FreshSession ==
    [messages |-> << >>,
     collected_data |-> NoCollected,
     guardrail_result |-> [is_allowed |-> "absent", category |-> "absent"]]

AfterDebateSession ==
    [messages |-> << HumanMessage(TextPrice), AIMessage(Tok("verdict")) >>,
     collected_data |-> [debate_history |-> PriorTranscript, report_topic |-> Tok("topicA")],
     guardrail_result |-> [is_allowed |-> "true", category |-> "finance"]]

SessionInit ==
    /\ node = "idle"
    /\ ran = {}
    /\ db_profile \in {StoredRow(p) : p \in InitRows} \cup {NoRow}
    /\ user_profile = load_user_profile(db_profile)
    /\ \E s \in {FreshSession, AfterDebateSession} :
         /\ s = AfterDebateSession => RouterMissingFields(user_profile) = << >>
         /\ messages = s.messages
         /\ collected_data = s.collected_data
         /\ guardrail_result = s.guardrail_result
    /\ original_query = NoneVal
    /\ router = NoRoute
    /\ chat = NoChat

NoLookup == [calls |-> 0, key |-> NoText, outcome |-> "none"]
NoBody == [calls |-> 0, tools |-> FALSE, ok |-> FALSE, lookups_before |-> 0]
NoReport == [topic |-> NoText, topic_calls |-> 0, lookup |-> NoLookup, body |-> NoBody]

\* no report run in progress, no stored report
ReportIdle ==
    /\ fpc = "idle"
    /\ fin = NoReport
    /\ advisory_reports = << >>

MaxRequests == 2      \* chat() calls the server receives

Requests == 1..MaxRequests

\* session ids clients send
SessionIds == {"s1", "s2"}

\* user ids clients send
UserIds == {"u1", "u2"}

NoSession == [exists |-> FALSE, first_run |-> FALSE, user_id |-> "none"]

IdleRequest ==
    [pc |-> "idle", session_id |-> "none", user_id |-> "none", message |-> NoText,
     node |-> "none", first_run |-> FALSE]

\* no request has arrived, the registry and the checkpointer are empty
ApiIdle ==
    /\ active_sessions = [sid \in SessionIds |-> NoSession]
    /\ requests = [r \in Requests |-> IdleRequest]
    /\ threads = [sid \in SessionIds |-> << >>]
    /\ thread_user = [sid \in SessionIds |-> "none"]

Init == SessionInit /\ LoopIdle /\ DebateIdle /\ ReportIdle /\ ApiIdle

----------------------------------------------------------------------------
(* Turn entry: chat() / run_chat_session feed one HumanMessage into the graph. *)
(* The model follows one turn of a session.                                   *)

StartTurn(text) ==
    /\ node = "idle"
    /\ messages' = merge_messages(messages, << HumanMessage(text) >>)
    /\ node' = "guardrail"
    /\ ran' = {}
    /\ router' = NoRoute
    /\ chat' = NoChat
    /\ UNCHANGED << user_profile, db_profile, collected_data, guardrail_result,
                    original_query >>
    /\ UNCHANGED << loopVars, debateVars >>
    /\ UNCHANGED reportVars
    /\ UNCHANGED apiVars

----------------------------------------------------------------------------
(* Safety classifier *)

Categories == {"finance", "profile_update", "general_chat", "unsafe"}

\* Answers of the classifier's completion call: the call or the JSON parse
\* raises, the JSON object lacks is_allowed, or it carries a flag and a category.
GuardrailAnswers ==
    {[kind |-> "error", is_allowed |-> "absent", category |-> "absent"],
     [kind |-> "nokey", is_allowed |-> "absent", category |-> "finance"]}
    \cup {[kind |-> "json", is_allowed |-> a, category |-> c] :
            a \in {"true", "false"}, c \in Categories}

\* a classifier that fails closed
GuardrailDefaultClosed == [is_allowed |-> "false", category |-> "finance"]

GuardrailDefault == [is_allowed |-> "true", category |-> "finance"]

\* history_context of GuardrailNode.run: the message before the user's
\* text, when there is one
GuardrailContext(msgs) ==
    IF Len(msgs) > 1 THEN << msgs[Len(msgs) - 1] >> ELSE << >>

\* GuardrailNode.run: the stored result for an answer
GuardrailResult(ans) ==
    IF ans.kind = "json"
    THEN [is_allowed |-> ans.is_allowed, category |-> ans.category]
    ELSE GuardrailDefault

\* a flag test that also looks at the category
IsAllowedSafeCategory(result) ==
    /\ result.category # "unsafe"
    /\ IF result.is_allowed = "absent" THEN TRUE ELSE result.is_allowed = "true"

\* result.get("is_allowed", True), by truthiness
IsAllowed(result) ==
    IF result.is_allowed = "absent" THEN TRUE ELSE result.is_allowed = "true"

\* an entry edge that ignores the classifier's flag
check_safety_open(result) == "condition"

\* the conditional edge out of guardrail
check_safety(result) == IF IsAllowed(result) THEN "condition" ELSE "__end__"

Guardrail ==
    /\ node = "guardrail"
    /\ \E ans \in GuardrailAnswers :
         /\ guardrail_result' = GuardrailResult(ans)
         /\ node' = check_safety(GuardrailResult(ans))
    /\ ran' = ran \cup {"guardrail"}
    /\ UNCHANGED << messages, user_profile, db_profile, collected_data,
                    original_query, router, chat >>
    /\ UNCHANGED << loopVars, debateVars >>
    /\ UNCHANGED reportVars
    /\ UNCHANGED apiVars

----------------------------------------------------------------------------
(* Intent router *)

explicit_keywords ==
    { <<"U+C218", "U+C815">>,
      <<"U+BCC0", "U+ACBD">>,
      <<"U+BC14", "U+AFD4">>,
      <<"u","p","d","a","t","e">>,
      <<"c","h","a","n","g","e">>,
      <<"U+B2E4", "U+C2DC", " ", "U+C785", "U+B825">> }

\* any(k in user_input for k in explicit_keywords)
HasExplicitKeyword(user_input) ==
    \E k \in explicit_keywords : Contains(user_input, k)

RouteLabels ==
    {"market_data", "investment_advisory", "report_generation", "profile_management"}

\* What _decide_route can hand back: the fallback dict after an exception
\* (call failure, unparseable answer), or the parsed JSON object, with a
\* route out of the four labels, another route, or no route key.
RouteAnswers ==
    {[kind |-> "error", route |-> "absent"],
     [kind |-> "json", route |-> "absent"],
     [kind |-> "json", route |-> "something_else"]}
    \cup {[kind |-> "json", route |-> r] : r \in RouteLabels}

\* _decide_route
DecideRoute(ans) ==
    IF ans.kind = "error" THEN [route |-> "market_data"] ELSE [route |-> ans.route]

\* a routing table with two labels exchanged
node_map_swapped(target) ==
    CASE target = "market_data" -> "retriever"
      [] target = "investment_advisory" -> "finance"
      [] target = "report_generation" -> "debate"
      [] target = "profile_management" -> "user_chat"
      [] OTHER -> "retriever"

\* node_map.get(target, "retriever")
node_map(target) ==
    CASE target = "market_data" -> "retriever"
      [] target = "investment_advisory" -> "debate"
      [] target = "report_generation" -> "finance"
      [] target = "profile_management" -> "user_chat"
      [] OTHER -> "retriever"

\* route_decision.get("route", "market_data")
RouteTarget(decision) ==
    IF decision.route = "absent" THEN "market_data" ELSE decision.route

\* history_context of the routing call
RouterContext(msgs) ==
    IF Len(msgs) > 1 THEN << msgs[Len(msgs) - 1] >> ELSE << >>

\* ConditionNode.run: the decision taken, given the answer the routing call
\* would give if it is issued.
ConditionDecision(result, profile, user_input, ans) ==
    IF ~IsAllowed(result)
    THEN [goto |-> "__end__", rule |-> "blocked", calls |-> 0, answer |-> NoAnswer]
    ELSE IF RouterMissingFields(profile) # << >>
    THEN [goto |-> "user_chat", rule |-> "incomplete", calls |-> 0, answer |-> NoAnswer]
    ELSE IF result.category = "profile_update" /\ HasExplicitKeyword(user_input)
    THEN [goto |-> "user_chat", rule |-> "profile_update", calls |-> 0, answer |-> NoAnswer]
    ELSE IF result.category = "general_chat"
    THEN [goto |-> "retriever", rule |-> "general_chat", calls |-> 0, answer |-> NoAnswer]
    ELSE [goto |-> node_map(RouteTarget(DecideRoute(ans))), rule |-> "llm", calls |-> 1,
          answer |-> ans]

Condition ==
    /\ node = "condition"
    /\ \E ans \in RouteAnswers :
         router' = ConditionDecision(guardrail_result, user_profile,
                                     messages[Len(messages)].content, ans)
    /\ node' = router'.goto
    /\ ran' = ran \cup {"condition"}
    /\ UNCHANGED << messages, user_profile, db_profile, collected_data,
                    guardrail_result, original_query, chat >>
    /\ UNCHANGED << loopVars, debateVars >>
    /\ UNCHANGED reportVars
    /\ UNCHANGED apiVars

----------------------------------------------------------------------------
(* Profile collector *)

\* Extracted fields of one structured-extraction answer, after
\* model_dump(exclude_none=True): a function from the fields it carries to
\* their (non-null) values.
\* Fields ExtractedInfo declares as Optional[Literal[...]]: an answer carrying
\* any other value for them fails validation, so they are never "".
LiteralFields ==
    {"risk_tolerance_level", "financial_knowledge_level", "goal_type", "preferred_style"}

ExtractedData ==
    {d \in UNION {[F -> {"v2", EmptyStr}] :
                    F \in {G \in SUBSET FocusFields : Cardinality(G) <= MaxExtract}} :
        \A f \in DOMAIN d : f \in LiteralFields => d[f] # EmptyStr}

\* The Literal[...] sets of ExtractedInfo, per categorical field
SchemaLiterals(f) ==
    CASE f = "risk_tolerance_level" ->
            {"conservative", "moderately_conservative", "moderate",
             "moderately_aggressive", "aggressive"}
      [] f = "financial_knowledge_level" -> {"beginner", "intermediate", "advanced"}
      [] f = "goal_type" ->
            {"retirement", "short_term", "mid_term", "long_term", "wealth_building"}
      [] f = "preferred_style" ->
            {"U+ACF5 U+C190 / U+C124 U+BA85 U+D615", "U+C9C1 U+C124",
             "U+C548 U+C815 U+C801 / U+C548 U+C2EC", "U+CC28 U+BD84 U+D55C U+CF54 U+CE58",
             "U+D0D0 U+C740 U+CE5C U+AD6C U+D615", "U+C804 U+BB38 U+AC00 U+D615"}

\* The values the DATA MAPPING RULES of the system prompt tell the model to
\* emit, per categorical field
PromptLiterals(f) ==
    CASE f = "risk_tolerance_level" -> {"conservative", "moderate", "aggressive"}
      [] f = "financial_knowledge_level" -> {"beginner", "intermediate", "advanced"}
      [] f = "goal_type" ->
            {"short_term", "mid_term", "long_term", "retirement", "unknown"}
      [] f = "preferred_style" ->
            {"U+C9C1 U+C124", "U+C548 U+C815 U+C801 / U+C548 U+C2EC",
             "U+ACF5 U+C190 / U+C124 U+BA85 U+D615", "U+CC28 U+BD84 U+D55C U+CF54 U+CE58",
             "U+BC1D U+C740 U+CE5C U+AD6C U+D615"}

\* The profile values of the model stand for classes of strings: "v1" and
\* "v2" for members of a categorical field's Literal set, "v9" for a string
\* outside it.
OutsideVal == "v9"

LiteralValue(f, lit) == IF lit \in SchemaLiterals(f) THEN "v2" ELSE OutsideVal

\* What the completion service can send back for the extraction call:
\* nothing usable (call failure, no JSON object), or a JSON object with
\* fields and possibly a response_message.
RawData ==
    {d \in UNION {[F -> {"v2", EmptyStr, OutsideVal}] :
                    F \in {G \in SUBSET FocusFields : Cardinality(G) <= MaxExtract}} :
        \A f \in DOMAIN d : d[f] = OutsideVal => f \in LiteralFields}

RawExtractions ==
    {[kind |-> "fail", data |-> << >>, has_message |-> FALSE]}
    \cup {[kind |-> "json", data |-> d, has_message |-> m] :
            d \in RawData, m \in BOOLEAN}

\* a schema whose categorical fields are plain strings
SchemaValidAny(d) == TRUE

\* self.schema(**json_content): pydantic accepts a categorical field only
\* with a member of its Literal set
SchemaValid(d) == \A f \in DOMAIN d \cap LiteralFields : d[f] \in {"v1", "v2"}

\* StructuredLLMWrapper.ainvoke: the validated object, or an exception
ParseExtraction(raw) ==
    IF raw.kind = "json" /\ SchemaValid(raw.data)
    THEN [kind |-> "ok", data |-> raw.data, has_message |-> raw.has_message]
    ELSE [kind |-> "error", data |-> << >>, has_message |-> FALSE]

\* Answers of the structured-extraction call: it raises (call failure, JSON or
\* schema validation failure), or yields fields and possibly a response_message.
ExtractAnswers == {ParseExtraction(raw) : raw \in RawExtractions}

\* an overlay in which the session's value wins
ChatCurrentProfileMemoryWins(profile, db, fetched) ==
    IF fetched /\ db.exists THEN DictUpdate(db.row, profile) ELSE profile

\* current_profile after `if db_profile: current_profile.update(db_profile)`;
\* `fetched` is whether _fetch_profile_from_db got the row.
ChatCurrentProfile(profile, db, fetched) ==
    IF fetched /\ db.exists THEN DictUpdate(profile, db.row) ELSE profile

\* current_profile after `if extracted_data: current_profile.update(extracted_data)`
ChatMerge(current, data) ==
    IF DOMAIN data # {} THEN DictUpdate(current, data) ELSE current

\* the assistant text of an incomplete-profile turn
ChatReply(has_message, merged) ==
    IF has_message THEN Tok("response_message")
    ELSE IF ChatMissingFields(merged) # << >>
         THEN << "question", ChatMissingFields(merged)[1] >>
         ELSE Tok("collection_complete")

\* UserProfileChatNode.run on a complete profile: back to the router, with
\* the deferred query replayed when there is one.
UserChatComplete(current) ==
    /\ chat' = [complete |-> TRUE, extract_calls |-> 0, merged |-> FALSE]
    /\ user_profile' = merge_dict(user_profile, current)
    /\ IF original_query # NoneVal
       THEN /\ messages' = merge_messages(messages,
                  << AIMessage(Tok("transition_notice")), HumanMessage(original_query) >>)
            /\ original_query' = NoneVal
       ELSE UNCHANGED << messages, original_query >>
    /\ node' = "condition"
    /\ UNCHANGED db_profile

\* a collector that hands over to the router once the merge completes the profile
UserChatGotoRouter(merged) ==
    IF ChatMissingFields(merged) = << >> THEN "condition" ELSE "__end__"

\* goto of the Command an incomplete-profile invocation returns
UserChatCollectGoto(merged) == "__end__"

\* a collector that writes its working profile to the store and to the
\* session before it looks at the outcome of the extraction call
UserChatCollectEager(current, ans, saved, question_ok) ==
    LET merged == ChatMerge(current, ans.data)
    IN  /\ chat' = [complete |-> FALSE, extract_calls |-> 1,
                    merged |-> (ans.kind = "ok" /\ DOMAIN ans.data # {})]
        /\ db_profile' = StoredRow(merged)
        /\ user_profile' = merge_dict(user_profile, merged)
        /\ IF ans.kind = "error"
           THEN /\ node' = "error"
                /\ UNCHANGED messages
           ELSE /\ node' = "__end__"
                /\ messages' = merge_messages(messages,
                      << AIMessage(ChatReply(ans.has_message, merged)) >>)
        /\ UNCHANGED original_query

\* UserProfileChatNode.run on an incomplete profile: one extraction call,
\* merge and save, one assistant message, end of turn.
UserChatCollect(current, ans, saved, question_ok) ==
    LET merged == ChatMerge(current, ans.data)
        needs_question == ~ans.has_message /\ ChatMissingFields(merged) # << >>
    IN  /\ chat' = [complete |-> FALSE, extract_calls |-> 1,
                    merged |-> (ans.kind = "ok" /\ DOMAIN ans.data # {})]
        /\ db_profile' = IF ans.kind = "ok" /\ DOMAIN ans.data # {} /\ saved
                         THEN StoredRow(merged) ELSE db_profile
        /\ IF ans.kind = "error" \/ (needs_question /\ ~question_ok)
           THEN /\ node' = "error"
                /\ UNCHANGED << user_profile, messages >>
           ELSE /\ node' = UserChatCollectGoto(merged)
                /\ user_profile' = merge_dict(user_profile, merged)
                /\ messages' = merge_messages(messages,
                      << AIMessage(ChatReply(ans.has_message, merged)) >>)
        /\ UNCHANGED original_query

UserChat ==
    /\ node = "user_chat"
    /\ ran' = ran \cup {"user_chat"}
    /\ \E fetched \in BOOLEAN :
         LET current == ChatCurrentProfile(user_profile, db_profile, fetched)
         IN  IF ChatMissingFields(current) = << >>
             THEN UserChatComplete(current)
             ELSE \E ans \in ExtractAnswers, saved \in BOOLEAN, question_ok \in BOOLEAN :
                     UserChatCollect(current, ans, saved, question_ok)
    /\ UNCHANGED << collected_data, guardrail_result, router >>
    /\ UNCHANGED << loopVars, debateVars >>
    /\ UNCHANGED reportVars
    /\ UNCHANGED apiVars

----------------------------------------------------------------------------
(* Tool-call loop: DebateNode._agent_turn, RetrieverNode._execute_react,   *)
(* FinanceNode._execute_react                                              *)

MaxToolRounds == 2    \* `for _ in range(2)`

LoopHosts == {"debate", "retriever", "finance"}

NoId == << 0, 0 >>

SystemMessage(prompt) ==
    [type |-> "system", content |-> prompt, tool_calls |-> << >>, tool_call_id |-> NoId]
HumanPrompt(prompt) ==
    [type |-> "human", content |-> prompt, tool_calls |-> << >>, tool_call_id |-> NoId]
ToolCallsMessage(ids) ==
    [type |-> "ai", content |-> Tok("text"), tool_calls |-> ids, tool_call_id |-> NoId]
ToolMessage(content, id) ==
    [type |-> "tool", content |-> content, tool_calls |-> << >>, tool_call_id |-> id]

\* A tool request: its name is in the function map and its arguments parse
\* and the tool returns ("ok"), or the name is not in the map ("unknown"),
\* or json.loads(args_str) raises ("badargs"), or the tool raises ("raises").
ToolKinds == {"ok", "unknown", "badargs", "raises"}

\* a loop that reports every request as a success
ToolResultSwallowed(host, kind) == "result"

\* str(result) appended for a request of each kind, per host
ToolResult(host, kind) ==
    CASE kind = "ok" -> "result"
      [] kind # "ok" /\ host = "debate" -> "Error: "
      [] kind = "unknown" /\ host # "debate" -> "Function not found"
      [] kind \in {"badargs", "raises"} /\ host = "retriever" -> "Execution Error: "
      [] kind \in {"badargs", "raises"} /\ host = "finance" -> "Error: "

\* Answers of a completion call: it raises, or it returns text and n tool requests.
Completions ==
    {[kind |-> "error", n |-> 0]} \cup {[kind |-> "ok", n |-> n] : n \in 0..MaxToolCalls}

\* invocation ids of the n requests of the response of iteration `iter`
RequestIds(iter, n) == [k \in 1..n |-> << iter, k >>]

\* the messages list and the counters at the start of an invocation
LoopBegin(host, system_prompt, human_prompt) ==
    /\ loopHost' = host
    /\ lpc' = "call"
    /\ loopIter' = 0
    /\ loopMsgs' = << SystemMessage(system_prompt), HumanPrompt(human_prompt) >>
    /\ pending' = << >>
    /\ done' = 0
    /\ callLog' = << >>
    /\ lastKind' = "none"
    /\ loopResult' = NoText
    /\ retFrom' = 0

LoopReset ==
    /\ loopHost' = "none"
    /\ lpc' = "idle"
    /\ loopIter' = 0
    /\ loopMsgs' = << >>
    /\ pending' = << >>
    /\ done' = 0
    /\ callLog' = << >>
    /\ lastKind' = "none"
    /\ loopResult' = NoText
    /\ retFrom' = 0

\* a loop capped one round later
AfterToolsLate(iter) == IF iter < MaxToolRounds + 1 THEN "call" ELSE "final"

\* where the loop goes once the requests of a response have been executed
AfterTools(iter) == IF iter < MaxToolRounds THEN "call" ELSE "final"

\* a loop that never returns on a response without tool requests
NoToolCallsIgnored(n) == FALSE

\* `not response.tool_calls`, for a response carrying n requests
NoToolCalls(n) == n = 0

\* one iteration head: `response = await self.llm.ainvoke(messages, tools=...)`
\* and the test `if not response.tool_calls: return response.content`
LoopCall ==
    /\ lpc = "call"
    /\ \E ans \in Completions :
         /\ callLog' = Append(callLog, [tools |-> TRUE, requests |-> ans.n,
                                        ok |-> ans.kind = "ok"])
         /\ lastKind' = "none"
         /\ IF ans.kind = "error"
            THEN /\ lpc' = "raised"
                 /\ UNCHANGED << loopIter, loopMsgs, pending, done, loopResult, retFrom >>
            ELSE IF NoToolCalls(ans.n)
            THEN /\ lpc' = "done"
                 /\ loopResult' = Tok("text")
                 /\ retFrom' = Len(callLog) + 1
                 /\ loopIter' = loopIter + 1
                 /\ UNCHANGED << loopMsgs, pending, done >>
            ELSE /\ loopIter' = loopIter + 1
                 /\ loopMsgs' = Append(loopMsgs,
                                       ToolCallsMessage(RequestIds(loopIter + 1, ans.n)))
                 /\ pending' = RequestIds(loopIter + 1, ans.n)
                 /\ done' = 0
                 /\ lpc' = IF ans.n = 0 THEN AfterTools(loopIter + 1) ELSE "tools"
                 /\ UNCHANGED << loopResult, retFrom >>
    /\ UNCHANGED << loopHost, sessionVars, debateVars >>
    /\ UNCHANGED reportVars
    /\ UNCHANGED apiVars

\* one pass of `for tool_call in response.tool_calls`
LoopTool ==
    /\ lpc = "tools"
    /\ done < Len(pending)
    /\ \E kind \in ToolKinds :
         /\ loopMsgs' = Append(loopMsgs,
                               ToolMessage(ToolResult(loopHost, kind), pending[done + 1]))
         /\ lastKind' = kind
    /\ done' = done + 1
    /\ lpc' = IF done + 1 < Len(pending) THEN "tools" ELSE AfterTools(loopIter)
    /\ UNCHANGED << loopHost, loopIter, pending, callLog, loopResult, retFrom >>
    /\ UNCHANGED << sessionVars, debateVars >>
    /\ UNCHANGED reportVars
    /\ UNCHANGED apiVars

\* after the second round: `final_res = await self.llm.ainvoke(messages)`
LoopFinal ==
    /\ lpc = "final"
    /\ \E ok \in BOOLEAN :
         /\ callLog' = Append(callLog, [tools |-> FALSE, requests |-> 0, ok |-> ok])
         /\ IF ok
            THEN /\ lpc' = "done"
                 /\ loopResult' = Tok("text")
                 /\ retFrom' = Len(callLog) + 1
            ELSE /\ lpc' = "raised"
                 /\ UNCHANGED << loopResult, retFrom >>
    /\ lastKind' = "none"
    /\ UNCHANGED << loopHost, loopIter, loopMsgs, pending, done >>
    /\ UNCHANGED << sessionVars, debateVars >>
    /\ UNCHANGED reportVars
    /\ UNCHANGED apiVars

----------------------------------------------------------------------------
(* Retrieval stage *)

\* RetrieverNode.run up to the call of _execute_react(user_query, system_prompt)
RetrieverStart ==
    /\ node = "retriever"
    /\ lpc = "idle"
    /\ LoopBegin("retriever", Tok("retriever_prompt"), messages[Len(messages)].content)
    /\ ran' = ran \cup {"retriever"}
    /\ UNCHANGED << node, messages, user_profile, db_profile, collected_data,
                    guardrail_result, original_query, router, chat >>
    /\ UNCHANGED debateVars
    /\ UNCHANGED reportVars
    /\ UNCHANGED apiVars

\* RetrieverNode.run after the loop returned: the follow-up suggestion call
\* and the Command that ends the turn.
RetrieverFinish ==
    /\ node = "retriever"
    /\ lpc = "done"
    /\ \E ok \in BOOLEAN :
         IF ok
         THEN /\ messages' = merge_messages(messages,
                    << AIMessage(loopResult \o Tok("refinement")) >>)
              /\ node' = "__end__"
         ELSE /\ node' = "error"
              /\ UNCHANGED messages
    /\ LoopReset
    /\ UNCHANGED << ran, user_profile, db_profile, collected_data,
                    guardrail_result, original_query, router, chat >>
    /\ UNCHANGED debateVars
    /\ UNCHANGED reportVars
    /\ UNCHANGED apiVars

----------------------------------------------------------------------------
(* Debate stage *)

\* a debate one round short
max_rounds_short == 5 - 1

max_rounds == 5

agents == << "Conservative", "Aggressive", "Balanced" >>

\* a debate that gives every round the same instruction
InstructionFlat(r) == "rebuttal"

\* the instruction template chosen for a round
Instruction(r) ==
    IF r = 1 THEN "opening"
    ELSE IF r \in {2, 3} THEN "rebuttal"
    ELSE IF r = 4 THEN "deep_dive"
    ELSE "closing"

TopicThreshold == 15  \* `if len(user_input) > 15`

\* Answers of the topic-summarising completion call
TopicAnswers ==
    {[kind |-> "error", text |-> NoText],
     [kind |-> "ok", text |-> Tok("topicA")],
     [kind |-> "ok", text |-> Tok("topicB")]}

HistoryWindow == 6    \* `history[-6:]`

\* a prompt that quotes the whole conversation
RecentHistoryAll(history) == history

\* history[-6:]
RecentHistory(history) ==
    IF Len(history) <= HistoryWindow THEN history
    ELSE SubSeq(history, Len(history) - HistoryWindow + 1, Len(history))

\* DebateNode._resolve_topic: the topic, the completion calls made, and the
\* messages quoted in the prompt of the call
ResolveTopic(user_input, history, ans) ==
    IF Len(user_input) > TopicThreshold
    THEN [ok |-> TRUE, topic |-> user_input, calls |-> 0, context |-> << >>]
    ELSE [ok |-> ans.kind = "ok", topic |-> ans.text, calls |-> 1,
          context |-> RecentHistory(history)]

\* a persona turn that is shown no transcript
AgentTurnBeginBlind(r, a, the_topic, history) ==
    LoopBegin("debate",
              [role |-> (<< "Conservative", "Aggressive", "Balanced" >>)[a], round |-> r,
               instruction |-> IF r = 1 THEN "opening"
                               ELSE IF r \in {2, 3} THEN "rebuttal"
                               ELSE IF r = 4 THEN "deep_dive" ELSE "closing"],
              [topic |-> the_topic, history |-> << >>])

\* the two messages _agent_turn starts from
AgentTurnBegin(r, a, the_topic, history) ==
    LoopBegin("debate",
              [role |-> agents[a], round |-> r, instruction |-> Instruction(r)],
              [topic |-> the_topic, history |-> history])

DebateReset ==
    /\ dpc' = "idle"
    /\ topic' = NoText
    /\ debate_log' = << >>
    /\ round_i' = 0
    /\ agent_i' = 0
    /\ verdict' = NoVerdict
    /\ topicLog' = << >>

\* DebateNode.run up to the first _agent_turn
DebateStart ==
    /\ node = "debate"
    /\ dpc = "idle"
    /\ ran' = ran \cup {"debate"}
    /\ \E ans \in TopicAnswers :
         LET res == ResolveTopic(messages[Len(messages)].content, messages, ans)
         IN  IF res.ok
             THEN /\ topic' = res.topic
                  /\ debate_log' = << >>
                  /\ round_i' = 1
                  /\ agent_i' = 1
                  /\ dpc' = "turn"
                  /\ verdict' = NoVerdict
                  /\ topicLog' = << res >>
                  /\ AgentTurnBegin(1, 1, res.topic, << >>)
                  /\ UNCHANGED node
             ELSE /\ node' = "error"
                  /\ UNCHANGED << debateVars, loopVars >>
    /\ UNCHANGED << messages, user_profile, db_profile, collected_data,
                    guardrail_result, original_query, router, chat >>
    /\ UNCHANGED reportVars
    /\ UNCHANGED apiVars

\* an _agent_turn returned: append the log entry, go to the next persona,
\* the next round, or the verdict
DebateTurnReturn ==
    /\ node = "debate"
    /\ dpc = "turn"
    /\ lpc = "done"
    /\ LET log == Append(debate_log, [role |-> agents[agent_i], argument |-> loopResult])
       IN  /\ debate_log' = log
           /\ IF agent_i < Len(agents)
              THEN /\ agent_i' = agent_i + 1
                   /\ AgentTurnBegin(round_i, agent_i + 1, topic, log)
                   /\ UNCHANGED << round_i, dpc >>
              ELSE IF round_i < max_rounds
              THEN /\ round_i' = round_i + 1
                   /\ agent_i' = 1
                   /\ AgentTurnBegin(round_i + 1, 1, topic, log)
                   /\ UNCHANGED dpc
              ELSE /\ dpc' = "verdict"
                   /\ LoopReset
                   /\ UNCHANGED << round_i, agent_i >>
    /\ UNCHANGED << topic, verdict, topicLog, sessionVars >>
    /\ UNCHANGED reportVars
    /\ UNCHANGED apiVars

\* _judge_verdict: one completion call, no tools
DebateVerdict ==
    /\ node = "debate"
    /\ dpc = "verdict"
    /\ \E ok \in BOOLEAN :
         IF ok
         THEN /\ verdict' = [calls |-> verdict.calls + 1, entries |-> Len(debate_log)]
              /\ dpc' = "finish"
              /\ UNCHANGED << node, topic, debate_log, round_i, agent_i, topicLog >>
         ELSE /\ node' = "error"
              /\ DebateReset
    /\ UNCHANGED << ran, messages, user_profile, db_profile, collected_data,
                    guardrail_result, original_query, router, chat >>
    /\ UNCHANGED loopVars
    /\ UNCHANGED reportVars
    /\ UNCHANGED apiVars

\* the second _resolve_topic and the Command that ends the turn; the
\* locals of the run are kept as they are at the return
DebateFinish ==
    /\ node = "debate"
    /\ dpc = "finish"
    /\ \E ans \in TopicAnswers :
         LET res == ResolveTopic(messages[Len(messages)].content, messages, ans)
         IN  IF res.ok
             THEN /\ messages' = merge_messages(messages, << AIMessage(Tok("verdict")) >>)
                  /\ collected_data' = merge_dict(collected_data,
                                                  [debate_history |-> debate_log,
                                                   report_topic |-> res.topic])
                  /\ node' = "__end__"
                  /\ dpc' = "returned"
                  /\ topic' = res.topic
                  /\ topicLog' = Append(topicLog, res)
                  /\ UNCHANGED << debate_log, round_i, agent_i, verdict >>
             ELSE /\ node' = "error"
                  /\ DebateReset
                  /\ UNCHANGED << messages, collected_data >>
    /\ UNCHANGED << ran, user_profile, db_profile, guardrail_result,
                    original_query, router, chat >>
    /\ UNCHANGED loopVars
    /\ UNCHANGED reportVars
    /\ UNCHANGED apiVars

\* a completion call inside the loop raised: the exception leaves the stage
StageRaise ==
    /\ node \in {"retriever", "debate"}
    /\ lpc = "raised"
    /\ node' = "error"
    /\ LoopReset
    /\ DebateReset
    /\ UNCHANGED << ran, messages, user_profile, db_profile, collected_data,
                    guardrail_result, original_query, router, chat >>
    /\ UNCHANGED reportVars
    /\ UNCHANGED apiVars

----------------------------------------------------------------------------
(* Report stage *)

\* Outcomes of the compliance lookup: documents found, an empty result, a
\* result carrying a not-found / failure marker, or an exception.
LegalOutcomes == {"found", "empty", "marker", "raised"}

\* legal_search_success
LegalSearchSuccess(outcome) == outcome = "found"

\* response.content of the report call: Markdown that follows the section
\* skeleton of the prompt, or that leaves the legal section out
ReportBodies ==
    { << "report_summary", "report_market", "report_products", "report_legal",
         "report_conclusion" >>,
      << "report_summary", "report_market", "report_products", "report_conclusion" >> }

\* an appendix left to the model
LegalAppendixNone(outcome) == << >>

\* legal_appendix: the notice or the warning, by legal_search_success
LegalAppendix(outcome) ==
    IF LegalSearchSuccess(outcome) THEN << "legal_appendix" >> ELSE << "legal_warning" >>

\* the assistant text of the Report stage: report_content + legal_appendix,
\* or the error text of the except branch
ReportText(body_ok, body, outcome) ==
    IF ~body_ok THEN Tok("report_error") ELSE body \o LegalAppendix(outcome)

\* a report run that goes straight to the report call
FinanceSkipLookup == "body"

\* where run goes once the topic is identified
FinanceAfterTopic == "lookup"

\* FinanceNode.run up to the topic: _identify_report_topic, one completion
\* call over the conversation, not caught when it raises
FinanceTopic ==
    /\ node = "finance"
    /\ fpc = "idle"
    /\ ran' = ran \cup {"finance"}
    /\ \E ans \in TopicAnswers :
         IF ans.kind = "ok"
         THEN /\ fin' = [fin EXCEPT !.topic = ans.text, !.topic_calls = @ + 1]
              /\ fpc' = FinanceAfterTopic
              /\ UNCHANGED node
         ELSE /\ fin' = [fin EXCEPT !.topic_calls = @ + 1]
              /\ node' = "error"
              /\ UNCHANGED fpc
    /\ UNCHANGED << messages, user_profile, db_profile, collected_data,
                    guardrail_result, original_query, router, chat, advisory_reports >>
    /\ UNCHANGED << loopVars, debateVars >>
    /\ UNCHANGED apiVars

\* the compliance lookup, keyed on the topic, inside try/except
FinanceLookup ==
    /\ node = "finance"
    /\ fpc = "lookup"
    /\ \E outcome \in LegalOutcomes :
         fin' = [fin EXCEPT !.lookup = [calls |-> @.calls + 1, key |-> fin.topic,
                                        outcome |-> outcome]]
    /\ fpc' = "body"
    /\ UNCHANGED << sessionVars, advisory_reports, loopVars, debateVars >>
    /\ UNCHANGED apiVars

\* the report-body completion call `self.llm.ainvoke(messages)`, the
\* appendix, and the Command that ends the turn
FinanceBody ==
    /\ node = "finance"
    /\ fpc = "body"
    /\ \E body_ok \in BOOLEAN, body \in ReportBodies :
         /\ fin' = [fin EXCEPT !.body = [calls |-> @.calls + 1, tools |-> FALSE,
                                         ok |-> body_ok,
                                         lookups_before |-> fin.lookup.calls]]
         /\ messages' = merge_messages(messages,
               << AIMessage(ReportText(body_ok, body, fin.lookup.outcome)) >>)
    /\ node' = "__end__"
    /\ fpc' = "returned"
    /\ UNCHANGED << ran, user_profile, db_profile, collected_data, guardrail_result,
                    original_query, router, chat, advisory_reports >>
    /\ UNCHANGED << loopVars, debateVars >>
    /\ UNCHANGED apiVars

----------------------------------------------------------------------------

Next ==
    \/ \E text \in UserTexts : StartTurn(text)
    \/ Guardrail
    \/ Condition
    \/ UserChat
    \/ RetrieverStart
    \/ RetrieverFinish
    \/ DebateStart
    \/ DebateTurnReturn
    \/ DebateVerdict
    \/ DebateFinish
    \/ StageRaise
    \/ FinanceTopic
    \/ FinanceLookup
    \/ FinanceBody
    \/ LoopCall
    \/ LoopTool
    \/ LoopFinal

Spec == Init /\ [][Next]_vars

\* The graph runner always runs the node a Command or an edge names, and a
\* handler that is awaiting an answer gets one.
FairSpec == Spec /\ WF_vars(Next)

----------------------------------------------------------------------------
(* The tool-call loop on its own: one invocation, for each of the three     *)
(* functions that implement it.                                             *)

InitLoop ==
    /\ ReportIdle
    /\ SessionInit
    /\ db_profile = NoRow
    /\ DebateIdle
    /\ loopHost \in LoopHosts
    /\ lpc = "call"
    /\ loopIter = 0
    /\ loopMsgs = << SystemMessage(Tok("system_prompt")), HumanPrompt(Tok("query")) >>
    /\ pending = << >>
    /\ done = 0
    /\ callLog = << >>
    /\ lastKind = "none"
    /\ loopResult = NoText
    /\ retFrom = 0
    /\ ApiIdle

NextLoop ==
    \/ LoopCall
    \/ LoopTool
    \/ LoopFinal

SpecLoop == InitLoop /\ [][NextLoop]_vars

----------------------------------------------------------------------------
(* The debate stage alone, entered from conversations of every length up to *)
(* MaxPrior earlier messages and with texts around the topic threshold      *)

MaxPrior == 7         \* messages of the conversation before the turn's text

\* "Yes, do it now!"
TextYes ==
    <<"Y","e","s",","," ","d","o"," ","i","t"," ","n","o","w","!">>

TopicTexts == UserTexts \cup {TextYes}

Ordinals == << "1", "2", "3", "4", "5", "6", "7", "8", "9" >>

\* a conversation of n earlier messages, user and assistant in turn, and
\* then the turn's text
History(n, text) ==
    [i \in 1..n |-> IF i % 2 = 1 THEN HumanMessage(<< "earlier", Ordinals[i] >>)
                                 ELSE AIMessage(<< "reply", Ordinals[i] >>)]
    \o << HumanMessage(text) >>

InitDebate ==
    /\ node = "debate"
    /\ ran = {"guardrail", "condition"}
    /\ db_profile = StoredRow([f \in FieldNames |-> "v1"])
    /\ user_profile = db_profile.row
    /\ \E n \in 0..MaxPrior, text \in TopicTexts : messages = History(n, text)
    /\ collected_data = NoCollected
    /\ guardrail_result = GuardrailDefault
    /\ original_query = NoneVal
    /\ router = [goto |-> "debate", rule |-> "llm", calls |-> 1,
                 answer |-> [kind |-> "json", route |-> "investment_advisory"]]
    /\ chat = NoChat
    /\ LoopIdle
    /\ DebateIdle
    /\ ReportIdle
    /\ ApiIdle

NextDebate ==
    \/ DebateStart
    \/ DebateTurnReturn
    \/ DebateVerdict
    \/ DebateFinish
    \/ StageRaise
    \/ LoopCall
    \/ LoopTool
    \/ LoopFinal

SpecDebate == InitDebate /\ [][NextDebate]_vars

----------------------------------------------------------------------------
(* The completeness gate on its own: sessions whose stored row has up to    *)
(* MaxBlank columns that are null, "" or [], in any of the twelve fields    *)

MaxBlank == 1         \* columns of the stored row that hold no value

BlankValues == {NoneVal, EmptyStr, EmptyList}

ProfileRows ==
    UNION {{[f \in FieldNames |-> IF f \in B THEN b[f] ELSE "v1"] : b \in [B -> BlankValues]} :
             B \in {C \in SUBSET FieldNames : Cardinality(C) <= MaxBlank}}

InitProfile ==
    /\ node = "idle"
    /\ ran = {}
    /\ db_profile \in {StoredRow(p) : p \in ProfileRows}
    /\ user_profile = load_user_profile(db_profile)
    /\ messages = FreshSession.messages
    /\ collected_data = FreshSession.collected_data
    /\ guardrail_result = FreshSession.guardrail_result
    /\ original_query = NoneVal
    /\ router = NoRoute
    /\ chat = NoChat
    /\ LoopIdle
    /\ DebateIdle
    /\ ReportIdle
    /\ ApiIdle

NextProfile ==
    \/ \E text \in UserTexts : StartTurn(text)
    \/ Guardrail
    \/ Condition
    \/ UserChat

SpecProfile == InitProfile /\ [][NextProfile]_vars

----------------------------------------------------------------------------
(* Several turns of one session through the classifier, the router and the  *)
(* collector: the state a turn leaves is the state the next turn starts in  *)

MaxTurns == 2         \* turns of the session

\* the columns that are null in some of the rows these sessions start from
TurnFields == {"income_bracket", "preferred_asset_types", "total_investable_amt"}

TurnRows ==
    {[f \in FieldNames |-> IF f \in B THEN NoneVal ELSE "v1"] : B \in SUBSET TurnFields}

\* turns started so far: one user message each
Turns(msgs) == Cardinality({i \in 1..Len(msgs) : msgs[i].role = "human"})

InitTurns ==
    /\ node = "idle"
    /\ ran = {}
    /\ db_profile \in {StoredRow(p) : p \in TurnRows}
    /\ user_profile = load_user_profile(db_profile)
    /\ messages = FreshSession.messages
    /\ collected_data = FreshSession.collected_data
    /\ guardrail_result = FreshSession.guardrail_result
    /\ original_query = NoneVal
    /\ router = NoRoute
    /\ chat = NoChat
    /\ LoopIdle
    /\ DebateIdle
    /\ ReportIdle
    /\ ApiIdle

\* the next user input on the same thread, after the previous graph run
\* has ended or has been left by an exception
NextTurn(text) ==
    /\ node \in {"__end__", "error"}
    /\ Turns(messages) < MaxTurns
    /\ messages' = merge_messages(messages, << HumanMessage(text) >>)
    /\ node' = "guardrail"
    /\ ran' = {}
    /\ router' = NoRoute
    /\ chat' = NoChat
    /\ UNCHANGED << user_profile, db_profile, collected_data, guardrail_result,
                    original_query >>
    /\ UNCHANGED << loopVars, debateVars >>
    /\ UNCHANGED reportVars
    /\ UNCHANGED apiVars

NextTurns ==
    \/ \E text \in UserTexts : StartTurn(text)
    \/ \E text \in UserTexts : NextTurn(text)
    \/ Guardrail
    \/ Condition
    \/ UserChat

SpecTurns == InitTurns /\ [][NextTurns]_vars

----------------------------------------------------------------------------
(* One turn through the classifier, the router and the collector while the  *)
(* profile endpoint changes the stored row behind the session               *)

\* bodies of POST /profile/{user_id}: one column, set or nulled
StoreUpdates ==
    UNION {[{f} -> {NoneVal, "v1"}] : f \in TurnFields}

\* update_profile: the upsert of the posted columns into the user's row
UpdateProfile(upd) ==
    /\ db_profile' = StoredRow(DictUpdate(load_user_profile(db_profile), upd))
    /\ db_profile' # db_profile
    /\ UNCHANGED << node, ran, messages, user_profile, collected_data,
                    guardrail_result, original_query, router, chat >>
    /\ UNCHANGED << loopVars, debateVars >>
    /\ UNCHANGED reportVars
    /\ UNCHANGED apiVars

NextStore ==
    \/ \E text \in UserTexts : StartTurn(text)
    \/ Guardrail
    \/ Condition
    \/ UserChat
    \/ \E upd \in StoreUpdates : UpdateProfile(upd)

SpecStore == InitTurns /\ [][NextStore]_vars

----------------------------------------------------------------------------
(* The HTTP entry point: up to MaxRequests chat() calls, each a coroutine   *)
(* that the event loop may suspend at every await                           *)

\* chat() from `session = active_sessions[session_id]` to the start of
\* astream: no await in between.  `sessions` is the registry as this
\* coroutine sees it.
ChatBegin(r, sid, uid, text, sessions) ==
    /\ active_sessions' = [sessions EXCEPT ![sid].first_run = FALSE]
    /\ requests' = [requests EXCEPT ![r] =
                       [pc |-> "running", session_id |-> sid, user_id |-> uid,
                        message |-> text, node |-> "guardrail",
                        first_run |-> sessions[sid].first_run]]
    /\ threads' = [threads EXCEPT ![sid] = merge_messages(@, << HumanMessage(text) >>)]
    /\ thread_user' = [thread_user EXCEPT ![sid] = uid]

\* a request arrives: a known session starts its graph run at once, an
\* unknown one first awaits load_user_profile
ChatArrive(r) ==
    /\ requests[r].pc = "idle"
    /\ \E sid \in SessionIds, uid \in UserIds, text \in UserTexts :
         IF active_sessions[sid].exists
         THEN ChatBegin(r, sid, uid, text, active_sessions)
         ELSE /\ requests' = [requests EXCEPT ![r] =
                                 [IdleRequest EXCEPT !.pc = "loading", !.session_id = sid,
                                                     !.user_id = uid, !.message = text]]
              /\ UNCHANGED << active_sessions, threads, thread_user >>
    /\ UNCHANGED << sessionVars, loopVars, debateVars, reportVars >>

\* load_user_profile has returned: the registry entry is written, with
\* first_run True, and the graph run starts
ChatLoaded(r) ==
    /\ requests[r].pc = "loading"
    /\ ChatBegin(r, requests[r].session_id, requests[r].user_id, requests[r].message,
                 [active_sessions EXCEPT ![requests[r].session_id] =
                     [exists |-> TRUE, first_run |-> TRUE,
                      user_id |-> requests[r].user_id]])
    /\ UNCHANGED << sessionVars, loopVars, debateVars, reportVars >>

\* the nodes a node's Command or edge can name
GraphSuccessors(n) ==
    CASE n = "guardrail" -> {check_safety(GuardrailResult(ans)) : ans \in GuardrailAnswers}
      [] n = "condition" -> {"user_chat"} \cup
                            {node_map(RouteTarget(DecideRoute(ans))) : ans \in RouteAnswers}
      [] n = "user_chat" -> {"condition", "__end__"}
      [] OTHER -> {"__end__"}

\* one node of a request's graph run finishes, after the awaits inside it:
\* it names the next node, a stage that ends the turn having appended its
\* assistant message, or it raises and chat() answers HTTP 500
ChatNode(r) ==
    /\ requests[r].pc = "running"
    /\ requests[r].node # "__end__"
    /\ \/ \E next \in GraphSuccessors(requests[r].node) :
            /\ requests' = [requests EXCEPT ![r].node = next]
            /\ threads' = IF next = "__end__" /\ requests[r].node # "guardrail"
                          THEN [threads EXCEPT ![requests[r].session_id] =
                                   merge_messages(@, << AIMessage(Tok("reply")) >>)]
                          ELSE threads
       \/ /\ requests' = [requests EXCEPT ![r].pc = "failed"]
          /\ UNCHANGED threads
    /\ UNCHANGED << active_sessions, thread_user >>
    /\ UNCHANGED << sessionVars, loopVars, debateVars, reportVars >>

\* astream is exhausted: chat() returns its ChatResponse
ChatReturn(r) ==
    /\ requests[r].pc = "running"
    /\ requests[r].node = "__end__"
    /\ requests' = [requests EXCEPT ![r].pc = "returned"]
    /\ UNCHANGED << active_sessions, threads, thread_user >>
    /\ UNCHANGED << sessionVars, loopVars, debateVars, reportVars >>

InitApi ==
    /\ SessionInit
    /\ db_profile = NoRow
    /\ LoopIdle
    /\ DebateIdle
    /\ ReportIdle
    /\ ApiIdle

NextApi ==
    \/ \E r \in Requests : ChatArrive(r)
    \/ \E r \in Requests : ChatLoaded(r)
    \/ \E r \in Requests : ChatNode(r)
    \/ \E r \in Requests : ChatReturn(r)

SpecApi == InitApi /\ [][NextApi]_vars

----------------------------------------------------------------------------
(* Properties *)

Stages == {"user_chat", "retriever", "debate", "finance"}

\* the text of the turn: the content of the last user message
UserText == messages[Len(messages)].content

\* the content of the last message of a conversation
UserTextOf(conv) == conv[Len(conv)].content

\* every required field is present and non-empty
AllFilled(profile) == \A f \in FieldNames : ~IsMissingVal(profile[f])

\* The router has just decided and the stage it named has not started:
\* guardrail_result, user_profile and the last message are what it read.
JustRouted ==
    /\ router # NoRoute
    /\ node = router.goto
    /\ node = "user_chat" \/ node \notin ran

\* C1: when the classifier's result has allowed = false the turn ends at
\* once - the guardrail is the only node that ran, no router decision, no
\* profile collection, no loop and no debate - and a router entered with a
\* blocked result - whatever category it carries, for the profile and the
\* text of the turn - ends the turn without a routing call.
C1_BlockedTurnEnds ==
    /\ ("guardrail" \in ran /\ guardrail_result.is_allowed = "false")
          => /\ node = "__end__"
             /\ ran = {"guardrail"}
             /\ router = NoRoute
             /\ chat = NoChat
             /\ lpc = "idle"
             /\ dpc = "idle"
    /\ node = "guardrail"
          => \A c \in Categories, ans \in RouteAnswers :
                LET d == ConditionDecision([is_allowed |-> "false", category |-> c],
                                           user_profile, UserText, ans)
                IN  d.goto = "__end__" /\ d.calls = 0

C1_Witness ==
    /\ "guardrail" \in ran
    /\ guardrail_result.is_allowed = "false"
    /\ guardrail_result.category = "finance"
    /\ node = "__end__"

\* C2: every turn that enters the graph leaves it, at END or with an
\* exception, after finitely many node executions.
C2_TurnTerminates == (node = "guardrail") ~> (node \in {"__end__", "error"})

\* lower-casing of the letters the texts use
LowerChar(c) ==
    CASE c = "C" -> "c" [] c = "P" -> "p" [] c = "A" -> "a" [] c = "M" -> "m"
      [] OTHER -> c

Lower(text) == [i \in 1..Len(text) |-> LowerChar(text[i])]

\* C3: an allowed turn whose profile misses a required field is routed to
\* the profile collector without a routing call, whatever the category.
C3_IncompleteToCollector ==
    (router # NoRoute /\ ~AllFilled(user_profile))
        => /\ router.goto = "user_chat"
           /\ router.calls = 0
           /\ router.answer = NoAnswer

C3_Witness ==
    /\ JustRouted
    /\ ~AllFilled(user_profile)
    /\ guardrail_result.category = "general_chat"
    /\ node = "user_chat"

\* C4: with a complete profile and category profile_update, a text that
\* contains a change/update keyword - "Change my income to 80M" is one -
\* goes to the profile collector by rule 3, without a routing call.
C4_EditKeywordRoutes ==
    ( /\ JustRouted
      /\ AllFilled(user_profile)
      /\ guardrail_result.category = "profile_update"
      /\ HasExplicitKeyword(Lower(UserText)) )
        => /\ router.goto = "user_chat"
           /\ router.calls = 0

\* C5: when the router sends a turn on a complete profile to the profile
\* collector by rule 3, the collector issues the extraction call for it.
C5_EditApplied ==
    (router.rule = "profile_update" /\ "user_chat" \in ran)
        => chat.extract_calls = 1

\* the stage the claim assigns to an answer of the routing call
C6_StageOf(answer) ==
    IF answer.kind # "json" THEN "retriever"
    ELSE CASE answer.route = "market_data" -> "retriever"
           [] answer.route = "investment_advisory" -> "debate"
           [] answer.route = "report_generation" -> "finance"
           [] answer.route = "profile_management" -> "user_chat"
           [] OTHER -> "retriever"

ToolPositions == {i \in 1..Len(loopMsgs) : loopMsgs[i].type = "tool"}
RequestPositions == {i \in 1..Len(loopMsgs) : loopMsgs[i].type = "ai"}

\* C7: in one invocation tools are executed in at most two rounds and at
\* most three completion calls are made.
C7_TwoToolRounds ==
    /\ Cardinality({loopMsgs[i].tool_call_id[1] : i \in ToolPositions}) <= 2
    /\ Cardinality(RequestPositions) <= 2
    /\ Len(callLog) <= 3

C7_Witness ==
    /\ lpc = "done"
    /\ Len(callLog) = 3
    /\ Cardinality(ToolPositions) = 2 * MaxToolCalls

\* C8: the loop returns the text of the first response without tool
\* requests, having executed no tool for it; when both tool-enabled
\* responses carry requests it makes one more call, without the catalog,
\* and returns that call's text.
C8_ReturnsFirstPlainAnswer ==
    lpc = "done"
        => /\ retFrom = Len(callLog)
           /\ loopResult = Tok("text")
           /\ callLog[retFrom].ok
           /\ callLog[retFrom].requests = 0
           /\ \A j \in 1..(retFrom - 1) :
                 callLog[j].tools /\ callLog[j].ok /\ callLog[j].requests > 0
           /\ Cardinality(RequestPositions) = retFrom - 1
           /\ retFrom <= 2 => callLog[retFrom].tools
           /\ retFrom = 3 => ~callLog[retFrom].tools

C8_Witness ==
    /\ lpc = "done"
    /\ retFrom = 3
    /\ loopHost = "retriever"

ErrorTexts == {"Error: ", "Function not found", "Execution Error: "}

\* the response whose requests a tool message at position q answers
RequestOf(q) == CHOOSE p \in RequestPositions :
                    p < q /\ \A r \in RequestPositions : r < q => r <= p

\* how many requests of the response at position p have been executed
Executed(p) ==
    IF lpc = "tools" /\ \A r \in RequestPositions : r <= p
    THEN done ELSE Len(loopMsgs[p].tool_calls)

\* C9: every executed tool request - also one naming an unknown tool, one
\* whose arguments do not parse, one whose execution raises - has exactly
\* one tool-result message, keyed by its invocation id, in request order,
\* carrying an error text on failure; the loop goes on with the remaining
\* requests and the next round, and only a failed completion call raises.
C9_OneResultPerRequest ==
    /\ \A p \in RequestPositions :
          \A j \in 1..Executed(p) :
             /\ p + j <= Len(loopMsgs)
             /\ loopMsgs[p + j].type = "tool"
             /\ loopMsgs[p + j].tool_call_id = loopMsgs[p].tool_calls[j]
    /\ \A q \in ToolPositions :
          /\ \E p \in RequestPositions : p < q
          /\ q - RequestOf(q) <= Executed(RequestOf(q))
    /\ lastKind # "none"
          => /\ loopMsgs[Len(loopMsgs)].type = "tool"
             /\ lastKind = "ok" => loopMsgs[Len(loopMsgs)].content = "result"
             /\ lastKind # "ok" => loopMsgs[Len(loopMsgs)].content \in ErrorTexts
             /\ lpc = IF done < Len(pending) THEN "tools"
                      ELSE IF loopIter < 2 THEN "call" ELSE "final"
    /\ lpc = "raised" => ~callLog[Len(callLog)].ok

C9_Witness ==
    /\ lastKind = "unknown"
    /\ done = 2
    /\ loopIter = 2
    /\ loopMsgs[Len(loopMsgs) - 1].content \in ErrorTexts
    /\ lpc = "final"

\* C10: a debate run has 15 transcript entries when the verdict call is
\* made, makes that call once, outside the tool loop, and no persona turn
\* follows it; a completed run leaves 15 entries.
C10_FifteenThenVerdict ==
    /\ dpc = "turn"
          => /\ verdict = NoVerdict
             /\ Len(debate_log) = 3 * (round_i - 1) + (agent_i - 1)
             /\ Len(debate_log) < 15
    /\ dpc = "verdict" => Len(debate_log) = 15 /\ verdict = NoVerdict /\ lpc = "idle"
    /\ dpc = "finish"
          => /\ Len(debate_log) = 15
             /\ verdict = [calls |-> 1, entries |-> 15]
             /\ lpc = "idle"
    /\ (node = "__end__" /\ "debate" \in ran)
          => Len(collected_data.debate_history) = 15

C10_Witness ==
    /\ dpc = "finish"
    /\ verdict.calls = 1
    /\ Len(debate_log) = 15

Roster == << "Conservative", "Aggressive", "Balanced" >>

\* the instruction the claim assigns to a round
C11_InstructionOf(r) ==
    CASE r = 1 -> "opening"
      [] r = 2 -> "rebuttal"
      [] r = 3 -> "rebuttal"
      [] r = 4 -> "deep_dive"
      [] r = 5 -> "closing"

\* C11: transcript entry i is spoken by roster member ((i-1) mod 3)+1, and
\* the turn that produces entry i runs in round ((i-1) div 3)+1 under that
\* round's instruction: opening, rebuttal, rebuttal, deep dive, closing.
C11_RosterAndRounds ==
    /\ \A i \in 1..Len(debate_log) : debate_log[i].role = Roster[((i - 1) % 3) + 1]
    /\ (node = "debate" /\ dpc = "turn")
          => LET i == Len(debate_log) + 1
             IN  /\ i \in 1..15
                 /\ round_i = ((i - 1) \div 3) + 1
                 /\ loopMsgs[1].content =
                       [role |-> Roster[((i - 1) % 3) + 1],
                        round |-> ((i - 1) \div 3) + 1,
                        instruction |-> C11_InstructionOf(((i - 1) \div 3) + 1)]
    /\ (node = "__end__" /\ "debate" \in ran)
          => \A i \in 1..15 :
                collected_data.debate_history[i].role = Roster[((i - 1) % 3) + 1]

C11_Witness ==
    /\ node = "debate"
    /\ dpc = "turn"
    /\ Len(debate_log) = 14
    /\ loopMsgs[1].content.role = "Balanced"
    /\ loopMsgs[1].content.instruction = "closing"

\* the transcript grows by appending: what was in it stays, in place
C12_Appended(old, new) ==
    /\ Len(new) \in {Len(old), Len(old) + 1}
    /\ SubSeq(new, 1, Len(old)) = old

\* C12: the persona turn producing entry i is given exactly the i-1 entries
\* before it, in order; an entry is appended when its turn returns, before
\* the next turn starts, and the run never removes or alters an entry.
C12_TurnSeesTranscript ==
    /\ []( (node = "debate" /\ dpc = "turn")
              => /\ loopMsgs[2].content.history = debate_log
                 /\ Len(debate_log) = 3 * (round_i - 1) + (agent_i - 1) )
    /\ [][ (dpc \in {"turn", "verdict", "finish"} /\ node' # "error")
              => /\ C12_Appended(debate_log, debate_log')
                 /\ debate_log' # debate_log
                       => /\ lpc = "done"
                          /\ dpc' = "turn" => /\ lpc' = "call"
                                              /\ loopMsgs'[2].content.history = debate_log'
         ]_vars

C12_Witness ==
    /\ node = "debate"
    /\ dpc = "turn"
    /\ lpc = "tools"
    /\ Len(loopMsgs[2].content.history) = 14
    /\ loopMsgs[2].content.history = debate_log

\* C13: the topic stored in collected_data.report_topic by a completed
\* debate run is the topic its persona turns and its verdict call used.
C13_PersistedTopicIsDebated ==
    (node = "__end__" /\ dpc = "returned")
        => collected_data.report_topic = topicLog[1].topic

\* the conversation as the topic resolutions of the run saw it
C14_Conversation ==
    IF dpc = "returned" THEN SubSeq(messages, 1, Len(messages) - 1) ELSE messages

\* the last n messages of a conversation
C14_Last(conv, n) == [j \in 1..n |-> conv[Len(conv) - n + j]]

\* C14: a text longer than 15 characters is the topic as it stands, with no
\* completion call; a text of at most 15 characters costs exactly one call,
\* whose prompt quotes the last 6 messages of the conversation (all of
\* them when there are fewer), and the call's answer is the topic.
C14_TopicResolution ==
    \A k \in 1..Len(topicLog) :
        LET r == topicLog[k]
            conv == C14_Conversation
        IN  /\ r.ok
            /\ Len(UserTextOf(conv)) > 15
                  => r.calls = 0 /\ r.topic = UserTextOf(conv) /\ r.context = << >>
            /\ Len(UserTextOf(conv)) <= 15
                  => /\ r.calls = 1
                     /\ r.topic \in {a.text : a \in {b \in TopicAnswers : b.kind = "ok"}}
                     /\ Len(r.context) <= 6
                     /\ r.context = C14_Last(conv, IF Len(conv) < 6 THEN Len(conv) ELSE 6)
            /\ (k = 1 /\ dpc \in {"turn", "verdict", "finish"}) => topic = r.topic

C14_Witness ==
    /\ dpc = "returned"
    /\ Len(topicLog) = 2
    /\ Len(UserTextOf(C14_Conversation)) = 15
    /\ Len(C14_Conversation) = 8
    /\ Len(topicLog[1].context) = 6
    /\ topicLog[2].calls = 1

\* C15: a debate run that completes appends exactly one assistant message,
\* the verdict; leaves in collected_data the topic it resolved and a
\* transcript that is the 15 entries of this run, whatever transcript an
\* earlier run had left; and ends the turn with no other stage entered.
C15_CompletedRunWrites ==
    /\ [][ (dpc = "finish" /\ node' # "error")
              => /\ node' = "__end__"
                 /\ messages' = Append(messages, AIMessage(Tok("verdict")))
                 /\ DOMAIN collected_data' = {"debate_history", "report_topic"}
                 /\ collected_data'.debate_history = debate_log
                 /\ Len(collected_data'.debate_history) = 15
                 /\ collected_data'.report_topic = topicLog'[Len(topicLog')].topic
                 /\ ran' = ran
         ]_vars
    /\ []( (node = "__end__" /\ dpc = "returned")
              => /\ Len(collected_data.debate_history) = 15
                 /\ ran \cap {"retriever", "finance"} = {}
                 /\ lpc = "idle"
                 /\ fpc = "idle" )

C15_Witness ==
    /\ node = "__end__"
    /\ dpc = "returned"
    /\ Len(messages) = 4
    /\ messages[2] = AIMessage(Tok("verdict"))
    /\ messages[4] = AIMessage(Tok("verdict"))
    /\ Len(collected_data.debate_history) = 15

\* C16: a report run makes the compliance lookup at most once, keyed on the
\* topic it identified, and makes it before the report-body call: the body
\* call is never issued, and no report message is ever emitted, without
\* exactly one lookup having been attempted before.
C16_LookupBeforeBody ==
    /\ fin.lookup.calls <= 1
    /\ fin.body.calls <= 1
    /\ fin.lookup.calls = 1 => fin.topic # NoText /\ fin.lookup.key = fin.topic
    /\ fpc = "lookup" => fin.lookup.calls = 0 /\ fin.body.calls = 0
    /\ fpc = "body" => fin.lookup.calls = 1 /\ fin.body.calls = 0
    /\ fin.body.calls = 1 => fin.lookup.calls = 1 /\ fin.body.lookups_before = 1
    /\ (node = "__end__" /\ "finance" \in ran)
          => /\ fin.lookup.calls = 1
             /\ fin.body.calls = 1
             /\ messages[Len(messages)].role = "ai"

C16_Witness ==
    /\ node = "__end__"
    /\ "finance" \in ran
    /\ fin.lookup.outcome = "raised"
    /\ fin.body.ok
    /\ fin.lookup.key = Tok("topicB")

\* C17: the message of the report stage carries the lookup-completed
\* notice when the lookup succeeded and the written-without-legal-review
\* warning when it did not, whatever the report-body call did.
C17_MessageStatesCompliance ==
    (node = "__end__" /\ "finance" \in ran)
        => IF fin.lookup.outcome = "found"
           THEN Contains(UserText, << "legal_appendix" >>)
           ELSE Contains(UserText, << "legal_warning" >>)

\* C18: with a topic left in collected_data by a debate run, the report
\* stage takes that topic and makes no topic call; it derives a topic by a
\* completion call only when there is none.
C18_DebateTopicPreferred ==
    (node = "finance" /\ fpc = "lookup")
        => IF collected_data.report_topic # NoCollected.report_topic
           THEN fin.topic_calls = 0 /\ fin.topic = collected_data.report_topic
           ELSE fin.topic_calls = 1

\* C19: the completion call that produces the report body is made with the
\* tool catalog.
C19_BodyThroughToolLoop == fin.body.calls >= 1 => fin.body.tools

\* C20: after a run that generated the report, the store holds a report row
\* with the run's topic.
C20_ReportPersisted ==
    (node = "__end__" /\ "finance" \in ran /\ fin.body.ok)
        => \E i \in 1..Len(advisory_reports) :
              advisory_reports[i].query_summary = fin.topic

\* C21: a report run in which a completion call fails - the topic call or
\* the report-body call - still ends the turn normally, with an assistant
\* message as the last message.
C21_ReportFailureEndsTurn ==
    ("finance" \in ran /\ fpc # "returned" /\ node # "finance")
        => /\ node = "__end__"
           /\ messages[Len(messages)].role = "ai"

C23_MessagesAppendOnly ==
    [][ /\ Len(messages') >= Len(messages)
        /\ SubSeq(messages', 1, Len(messages)) = messages ]_vars

C23_Witness ==
    /\ node = "__end__"
    /\ "retriever" \in ran
    /\ Len(messages) = 4
    /\ messages[1] = HumanMessage(TextPrice)
    /\ messages[3] = HumanMessage(TextChangeLower)
    /\ messages[4].role = "ai"

\* C24: a profile field that holds a non-empty value before a step holds a
\* non-empty value after it: fields are overwritten, never emptied.
C24_FieldsNeverEmptied ==
    [][ \A f \in FieldNames :
           ~IsMissingVal(user_profile[f]) => ~IsMissingVal(user_profile'[f]) ]_vars

\* C27: when collection interrupts an allowed question that is not about the
\* profile, the question is saved as the deferred query: after the Profile
\* Collector has answered such a turn, original_query holds a saved query.
C27_DeferredQuerySaved ==
    ( /\ node = "__end__"
      /\ "user_chat" \in ran
      /\ router.rule = "incomplete"
      /\ IsAllowed(guardrail_result)
      /\ messages[Len(messages) - 1] = HumanMessage(TextPrice) )
        => original_query # NoneVal

\* C28: a Profile Collector invocation on an incomplete profile makes exactly
\* one extraction call and does not hand over to the Router; when it returns
\* it has appended exactly one assistant message, the session profile is the
\* fetched profile merged with the extracted fields, the store holds either
\* that merged profile or what it held before, and the turn has ended - also
\* when the merge left no field missing.
C28_CollectOnceAndYield ==
    [][ (node = "user_chat" /\ ~chat'.complete)
          => /\ chat'.extract_calls = 1
             /\ node' \in {"__end__", "error"}
             /\ router' = router
             /\ node' = "__end__"
                   => /\ Len(messages') = Len(messages) + 1
                      /\ SubSeq(messages', 1, Len(messages)) = messages
                      /\ messages'[Len(messages')].role = "ai"
                      /\ \E fetched \in BOOLEAN, d \in ExtractedData \cup {<< >>} :
                            user_profile' =
                               DictUpdate(IF fetched /\ db_profile.exists
                                          THEN DictUpdate(user_profile, db_profile.row)
                                          ELSE user_profile, d)
                      /\ db_profile' \in {db_profile, StoredRow(user_profile')}
                      /\ ~chat'.merged => /\ db_profile' = db_profile
                                          /\ \E fetched \in BOOLEAN :
                                               user_profile' = ChatCurrentProfile(user_profile, db_profile, fetched)
      ]_vars

C28_Witness ==
    /\ node = "__end__"
    /\ ran = {"guardrail", "condition", "user_chat"}
    /\ router.rule = "incomplete"
    /\ chat = [complete |-> FALSE, extract_calls |-> 1, merged |-> TRUE]
    /\ AllFilled(user_profile)
    /\ db_profile = StoredRow(user_profile)
    /\ messages[Len(messages)].role = "ai"

\* C30: a failing external call inside the Debate, Retrieval or Profile
\* Collector stage is caught within the stage: no run of one of these stages
\* is left by an exception.
C30_StageCallFailuresCaught ==
    node = "error" => ran \cap {"debate", "retriever", "user_chat"} = {}

C25_Required ==
    {"name_display", "age_range", "income_bracket", "invest_experience_yr",
     "financial_knowledge_level", "current_holdings_note", "preferred_asset_types",
     "risk_tolerance_level", "total_investable_amt", "goal_type",
     "goal_description", "preferred_style"}

C25_Present(profile, f) == profile[f] \notin {"None", "", "[]"}

C25_Absent(profile) == {f \in C25_Required : ~C25_Present(profile, f)}

C25_Range(seq) == {seq[i] : i \in 1..Len(seq)}

\* C25: the completeness check - the router's and the collector's - finds
\* a profile complete exactly when each of the twelve required fields holds
\* a value other than null, "" and []; the router's decision follows it; and
\* giving a value to a missing field takes exactly that field off the
\* missing list, so a profile with one missing field becomes complete.
C25_CompletenessCheck ==
    /\ Cardinality(C25_Required) = 12
    /\ (JustRouted /\ router.rule # "blocked")
          => (router.rule = "incomplete" <=> C25_Absent(user_profile) # {})
    /\ ("user_chat" \in ran /\ node # "user_chat" /\ chat.complete)
          => C25_Absent(user_profile) = {}
    /\ node = "condition"
          => /\ C25_Range(RouterMissingFields(user_profile)) = C25_Absent(user_profile)
             /\ C25_Range(ChatMissingFields(user_profile)) = C25_Absent(user_profile)
             /\ \A f \in C25_Absent(user_profile), v \in {"v1", "v2"} :
                   LET added == [user_profile EXCEPT ![f] = v]
                   IN  /\ C25_Range(RouterMissingFields(added)) = C25_Absent(user_profile) \ {f}
                       /\ C25_Range(ChatMissingFields(added)) = C25_Absent(user_profile) \ {f}
                       /\ C25_Absent(user_profile) = {f}
                             => /\ RouterMissingFields(added) = << >>
                                /\ ChatMissingFields(added) = << >>

C25_Witness ==
    /\ JustRouted
    /\ router.rule = "incomplete"
    /\ node = "user_chat"
    /\ user_profile["preferred_asset_types"] = EmptyList
    /\ C25_Absent(user_profile) = {"preferred_asset_types"}

\* C26: merging an update twice gives what merging it once gives, and for
\* two updates with no field in common the result is the same in either
\* order and the same as merging their union in one step - into the
\* session profile and into the empty mapping; the collector's in-place
\* update agrees with the reducer, and re-merging the update a collector
\* invocation has just merged leaves the profile as it is.
C26_MergeAlgebra ==
    /\ node = "user_chat"
          => \A u1 \in ExtractedData, u2 \in ExtractedData :
                /\ merge_dict(merge_dict(user_profile, u1), u1) = merge_dict(user_profile, u1)
                /\ ChatMerge(user_profile, u1) = merge_dict(user_profile, u1)
                /\ DOMAIN u1 \cap DOMAIN u2 = {}
                      => /\ merge_dict(merge_dict(user_profile, u1), u2)
                               = merge_dict(user_profile, u1 @@ u2)
                         /\ merge_dict(merge_dict(user_profile, u1), u2)
                               = merge_dict(merge_dict(user_profile, u2), u1)
                         /\ merge_dict(merge_dict(<< >>, u1), u2) = merge_dict(<< >>, u1 @@ u2)
                         /\ DOMAIN merge_dict(merge_dict(<< >>, u1), u2) = DOMAIN u1 \cup DOMAIN u2
                         /\ \A k \in DOMAIN u1 : merge_dict(merge_dict(<< >>, u1), u2)[k] = u1[k]
    /\ (node = "__end__" /\ chat.merged)
          => \E u \in ExtractedData :
                /\ DOMAIN u # {}
                /\ \A k \in DOMAIN u : user_profile[k] = u[k]
                /\ merge_dict(user_profile, u) = user_profile

C26_Witness ==
    /\ node = "__end__"
    /\ chat.merged
    /\ user_profile["income_bracket"] = "v2"
    /\ user_profile["goal_type"] = EmptyStr
    /\ merge_dict(user_profile, [income_bracket |-> "v2"]) = user_profile

\* C29: for a session id, the graph run of one chat request never overlaps
\* the graph run of another request carrying the same id.
C29_TurnsSequential ==
    \A r1 \in Requests, r2 \in Requests :
        ( /\ r1 # r2
          /\ requests[r1].pc = "running"
          /\ requests[r2].pc = "running"
          /\ requests[r1].node # "__end__"
          /\ requests[r2].node # "__end__" )
            => requests[r1].session_id # requests[r2].session_id

\* C40: a turn is blocked exactly when the stored safety result carries
\* the flag false; two results with the same flag get the same decision from
\* the entry edge and from the router's first test, whatever their
\* categories, so a result with category unsafe and flag true goes on to the
\* router and the stages.
C40_BlockedByFlagOnly ==
    /\ "guardrail" \in ran
          => ((node = "__end__" /\ ran = {"guardrail"})
                 <=> guardrail_result.is_allowed = "false")
    /\ ("condition" \in ran /\ guardrail_result.category = "unsafe")
          => router.rule # "blocked"
    /\ node = "guardrail"
          => \A a1 \in GuardrailAnswers, a2 \in GuardrailAnswers :
                GuardrailResult(a1).is_allowed = GuardrailResult(a2).is_allowed
                   => /\ check_safety(GuardrailResult(a1)) = check_safety(GuardrailResult(a2))
                      /\ (ConditionDecision(GuardrailResult(a1), user_profile,
                                            UserText, NoAnswer).rule = "blocked")
                            <=> (ConditionDecision(GuardrailResult(a2), user_profile,
                                                   UserText, NoAnswer).rule = "blocked")

C40_Witness ==
    /\ guardrail_result = [is_allowed |-> "true", category |-> "unsafe"]
    /\ ran = {"guardrail", "condition"}
    /\ router.rule = "llm"
    /\ node = "finance"

\* C39: the router and the collector name the same twelve fields in the
\* same order and, on every profile, list the same missing fields; a turn
\* the router sent to the collector as incomplete is treated as incomplete
\* by the collector working on that profile, and a collector that found
\* the profile complete hands back a profile the router finds complete.
C39_SameVerdict ==
    /\ REQUIRED_FIELDS = REQUIRED_FIELDS_UC
    /\ node \in {"condition", "user_chat"}
          => /\ RouterMissingFields(user_profile) = ChatMissingFields(user_profile)
             /\ db_profile.exists
                   => RouterMissingFields(db_profile.row) = ChatMissingFields(db_profile.row)
    /\ ("user_chat" \in ran /\ router.rule = "incomplete") => ~chat.complete
    /\ ("user_chat" \in ran /\ chat.complete)
          => /\ router.rule # "incomplete"
             /\ RouterMissingFields(user_profile) = << >>

C39_Witness ==
    /\ node = "__end__"
    /\ router.rule = "incomplete"
    /\ chat = [complete |-> FALSE, extract_calls |-> 1, merged |-> FALSE]
    /\ user_profile["goal_description"] = EmptyStr
    /\ RouterMissingFields(user_profile) = << "goal_description" >>
    /\ ChatMissingFields(user_profile) = << "goal_description" >>

C37_InSet(v) == v \in {"None", "v1", "v2"}

\* C37: a categorical field of the session profile and of the stored row
\* never holds a string outside the field's set of literals (nor the empty
\* string), and an extraction answer carrying such a value for a categorical
\* field is rejected as a whole.
C37_CategoricalValuesInSet ==
    /\ \A f \in {"risk_tolerance_level", "financial_knowledge_level",
                 "goal_type", "preferred_style"} :
          /\ C37_InSet(user_profile[f])
          /\ db_profile.exists => C37_InSet(db_profile.row[f])
    /\ node = "user_chat"
          => \A raw \in RawExtractions :
                (\E f \in DOMAIN raw.data \cap LiteralFields : raw.data[f] \notin {"v1", "v2"})
                   => /\ ParseExtraction(raw).kind = "error"
                      /\ ParseExtraction(raw).data = << >>

C37_Witness ==
    /\ node = "__end__"
    /\ chat.merged
    /\ user_profile["preferred_style"] = "v2"
    /\ db_profile.exists
    /\ db_profile.row["preferred_style"] = "v2"

\* C38: each literal the extraction instruction names for a categorical
\* field is accepted by the schema: an answer carrying it for that field
\* parses.
C38_PromptLiteralsAccepted ==
    node = "user_chat"
       => \A f \in LiteralFields :
             \A lit \in PromptLiterals(f) :
                ParseExtraction([kind |-> "json", data |-> (f :> LiteralValue(f, lit)),
                                 has_message |-> TRUE]).kind = "ok"

\* C35: a Profile Collector invocation that is left by an exception without
\* a parsed, non-empty extraction result - the extraction call failed or its
\* output did not validate - leaves the session profile, the stored row, the
\* messages and the rest of the shared state as they were.
C35_FailedExtractionChangesNothing ==
    [][ (node = "user_chat" /\ node' = "error" /\ ~chat'.merged)
          => /\ chat'.extract_calls = 1
             /\ user_profile' = user_profile
             /\ db_profile' = db_profile
             /\ messages' = messages
             /\ collected_data' = collected_data
             /\ guardrail_result' = guardrail_result
             /\ original_query' = original_query ]_vars

C35_Witness ==
    /\ node = "error"
    /\ ran = {"guardrail", "condition", "user_chat"}
    /\ chat = [complete |-> FALSE, extract_calls |-> 1, merged |-> FALSE]
    /\ db_profile = NoRow
    /\ user_profile = EmptyProfile
    /\ messages[Len(messages)].role = "human"

C33_Tail(seq, n) == SubSeq(seq, Len(seq) - n + 1, Len(seq))

\* C33: the message of a report run whose body call succeeded is a body
\* followed by exactly one appendix element, the notice when the lookup
\* found documents and the warning otherwise: the appendix is the suffix the
\* outcome of this run's lookup determines, for the body with the legal
\* section and for the body without it.
C33_AppendixIsSuffix ==
    (fpc = "returned" /\ fin.body.ok)
       => LET text == messages[Len(messages)].content
          IN  /\ messages[Len(messages)].role = "ai"
              /\ C33_Tail(text, 1) =
                    (IF fin.lookup.outcome = "found" THEN << "legal_appendix" >>
                                                     ELSE << "legal_warning" >>)
              /\ SubSeq(text, 1, Len(text) - 1) \in ReportBodies
              /\ \A i \in 1..(Len(text) - 1) :
                    text[i] \notin {"legal_appendix", "legal_warning"}

C33_Witness ==
    /\ fpc = "returned"
    /\ fin.body.ok
    /\ fin.lookup.outcome = "raised"
    /\ messages[Len(messages)].content =
          << "report_summary", "report_market", "report_products", "report_conclusion",
             "legal_warning" >>

\* C32: a message the classifier or the routing call attaches as context
\* is an assistant message.
C32_ContextIsAssistantTurn ==
    /\ node = "guardrail"
          => \A i \in DOMAIN GuardrailContext(messages) :
                GuardrailContext(messages)[i].role = "ai"
    /\ node = "condition"
          => \A i \in DOMAIN RouterContext(messages) :
                RouterContext(messages)[i].role = "ai"

C34_Overlay(memory, row) ==
    [f \in FieldNames |-> IF f \in DOMAIN row THEN row[f] ELSE memory[f]]

C34_Complete(profile) == \A f \in FieldNames : profile[f] \notin {"None", "", "[]"}

\* C34: the collector's working profile is the session profile with the
\* stored row laid over it - the stored value wins for every key of the row,
\* a null one too, and without a row the session profile is used as it is -
\* and in every invocation the complete/incomplete branch and the profile
\* handed back follow from that working profile, not from an earlier verdict.
C34_StoreOverlaysMemory ==
    /\ [](node = "user_chat"
            => /\ db_profile.exists
                    => ChatCurrentProfile(user_profile, db_profile, TRUE)
                          = C34_Overlay(user_profile, db_profile.row)
               /\ ~db_profile.exists
                    => ChatCurrentProfile(user_profile, db_profile, TRUE) = user_profile
               /\ ChatCurrentProfile(user_profile, db_profile, FALSE) = user_profile)
    /\ [][ (node = "user_chat" /\ node' # "user_chat")
             => \E fetched \in BOOLEAN :
                   LET working == IF fetched /\ db_profile.exists
                                  THEN C34_Overlay(user_profile, db_profile.row)
                                  ELSE user_profile
                   IN  /\ chat'.complete <=> C34_Complete(working)
                       /\ chat'.complete => user_profile' = working
                       /\ (~chat'.complete /\ node' = "__end__")
                             => \E d \in ExtractedData :
                                   user_profile' =
                                      [f \in FieldNames |->
                                          IF f \in DOMAIN d THEN d[f] ELSE working[f]]
         ]_vars

C34_Witness ==
    /\ "user_chat" \in ran
    /\ router.rule \in {"profile_update", "llm"}
    /\ chat = [complete |-> FALSE, extract_calls |-> 1, merged |-> FALSE]
    /\ node = "__end__"
    /\ db_profile.row["income_bracket"] = NoneVal
    /\ user_profile["income_bracket"] = NoneVal

C36_Rank(f) ==
    CASE f = "name_display" -> 1
      [] f \in {"age_range", "income_bracket"} -> 2
      [] f = "invest_experience_yr" -> 3
      [] f = "financial_knowledge_level" -> 4
      [] f \in {"current_holdings_note", "total_investable_amt"} -> 5
      [] f \in {"preferred_asset_types", "risk_tolerance_level"} -> 6
      [] f \in {"goal_type", "goal_description"} -> 7
      [] f = "preferred_style" -> 8

\* C36: a generated question targets a field that no missing field of the
\* merged profile precedes in the order name, demographics, experience,
\* knowledge, holdings/amount, preferences, goals, style.
C36_QuestionTargetsFirstMissing ==
    ( /\ node = "__end__"
      /\ "user_chat" \in ran
      /\ ~chat.complete
      /\ messages[Len(messages)].content[1] = "question" )
        => LET target == messages[Len(messages)].content[2]
           IN  /\ user_profile[target] \in {"None", "", "[]"}
               /\ \A g \in FieldNames :
                     user_profile[g] \in {"None", "", "[]"} => C36_Rank(target) <= C36_Rank(g)

\* C31: once a session's shared state holds a user id, no step changes it.
C31_UserIdStable ==
    [][ \A sid \in SessionIds :
           thread_user[sid] # "none" => thread_user'[sid] = thread_user[sid] ]_vars

====
